---------------------------- MODULE Spec2Model ----------------------------
(***************************************************************************)
(* Speech orchestration and viseme synchronisation: the useSpeechSynthesis *)
(* hook (src/unnamed/part_000, lines 301-467) together with the platform   *)
(* speech capability (window.speechSynthesis) it drives.                   *)
(*                                                                         *)
(* Strings whose characters the code inspects (texts, locale tags, voice   *)
(* names) are sequences of one-character strings.  Every handler of the    *)
(* hook is a function from a state record to a state record, so that a     *)
(* handler calling another handler (speak -> cancel -> processQueue) is    *)
(* function composition; an action applies one handler to the current      *)
(* state.  React state setters are modelled as taking effect with the      *)
(* handler that calls them (the event loop is single threaded and React    *)
(* commits before the next event is dispatched).                           *)
(***************************************************************************)
EXTENDS Integers, Sequences, FiniteSets, TLC

VARIABLES
  isMuted,             \* useState(false), line 310
  isSpeaking,          \* useState(false), line 311
  spokenText,          \* useState(''), line 312
  mouthShape,          \* useState('X'), line 313
  utteranceQueue,      \* useRef([]), line 315
  onEndCallback,       \* useRef(undefined), line 316: a request id or NoCb
  mouthShapeInterval,  \* useRef(null), line 317: TRUE iff a timer handle is held
  voices,              \* useState([]), line 318
  globalLanguage,      \* the hook's argument, line 309
  available,           \* window.speechSynthesis exists
  mounted,             \* the component using the hook is mounted
  synthQueue,          \* platform: units handed over, terminal event not yet fired
  synthStarted,        \* platform: the head of synthQueue has had its start event
  late,                \* platform: cancelled units whose terminal event is undelivered
  synthCancelled,      \* platform: the last handler called speechSynthesis.cancel()
  reqs,                \* history: one record per speak() call, in call order
  call                 \* the arguments of a single recorded call, and its result

vars == <<isMuted, isSpeaking, spokenText, mouthShape, utteranceQueue,
          onEndCallback, mouthShapeInterval, voices, globalLanguage, available,
          mounted, synthQueue, synthStarted, late, synthCancelled, reqs, call>>

-----------------------------------------------------------------------------
(* Bounds of the model *)

\* number of speak() calls in one run
MaxRequests == 2

\* length of a caller-supplied segment list
MaxSegs == 2

\* number of outcomes of Math.random() the viseme timer draws from
ShapeDraws == 2

\* number of voices in a catalog the voice selection is tried on
MaxVoices == 2

-----------------------------------------------------------------------------
(* Program constants and configuration *)

MOUTH_SHAPES == <<"A", "B", "C", "D", "E", "F", "G", "H">>

NEUTRAL == "X"

\* onEndCallback.current === undefined
NoCb == 0

\* The application languages (keys of bcp47LanguageMap).
Languages == {"en", "hi"}

\* The gender hints (InterviewerGender).
Genders == {"male", "female"}

\* '../translations' is not among the sources: the table is the one the
\* specification describes ("en" -> "en-US").
bcp47LanguageMap ==
  [l \in Languages |->
     IF l = "en" THEN <<"e", "n", "-", "U", "S">>
                 ELSE <<"h", "i", "-", "I", "N">>]

\* The word a gender hint is searched as in a voice name.
GenderWord(g) ==
  IF g = "male" THEN <<"m", "a", "l", "e">>
                ELSE <<"f", "e", "m", "a", "l", "e">>

-----------------------------------------------------------------------------
(* String primitives of the platform (String.prototype) *)

\* s.startsWith(p)
StartsWith(s, p) ==
  /\ Len(p) <= Len(s)
  /\ SubSeq(s, 1, Len(p)) = p

\* s.includes(p)
Includes(s, p) ==
  \E i \in 0..(Len(s) - Len(p)) : SubSeq(s, i + 1, i + Len(p)) = p

UpperCase ==
  <<"A", "B", "C", "D", "E", "F", "G", "H", "I", "J", "K", "L", "M",
    "N", "O", "P", "Q", "R", "S", "T", "U", "V", "W", "X", "Y", "Z">>

LowerCase ==
  <<"a", "b", "c", "d", "e", "f", "g", "h", "i", "j", "k", "l", "m",
    "n", "o", "p", "q", "r", "s", "t", "u", "v", "w", "x", "y", "z">>

LowerOf(c) ==
  IF \E i \in 1..Len(UpperCase) : UpperCase[i] = c
  THEN LowerCase[CHOOSE i \in 1..Len(UpperCase) : UpperCase[i] = c]
  ELSE c

\* s.toLowerCase()
ToLowerCase(s) == [i \in 1..Len(s) |-> LowerOf(s[i])]

\* s.split('-')[0]
RECURSIVE SplitDashFirst(_)
SplitDashFirst(s) ==
  IF s = <<>> \/ Head(s) = "-" THEN <<>>
  ELSE <<Head(s)>> \o SplitDashFirst(Tail(s))

RECURSIVE TrimStart(_)
TrimStart(s) ==
  IF s # <<>> /\ Head(s) = " " THEN TrimStart(Tail(s)) ELSE s

RECURSIVE TrimEnd(_)
TrimEnd(s) ==
  IF s # <<>> /\ s[Len(s)] = " " THEN TrimEnd(SubSeq(s, 1, Len(s) - 1)) ELSE s

\* s.trim()
Trim(s) == TrimEnd(TrimStart(s))

\* Array.prototype.filter is SelectSeq; Array.prototype.find gives the first
\* element passing the test, as a sequence of zero or one element
\* (undefined = <<>>).
FirstOf(filtered) ==
  IF filtered = <<>> THEN <<>> ELSE <<Head(filtered)>>

\* texts.join(' ')
RECURSIVE JoinSpace(_)
JoinSpace(texts) ==
  IF texts = <<>> THEN <<>>
  ELSE IF Len(texts) = 1 THEN Head(texts)
  ELSE Head(texts) \o <<" ">> \o JoinSpace(Tail(texts))


-----------------------------------------------------------------------------
(* The state the handlers work on *)

State ==
  [isMuted |-> isMuted, isSpeaking |-> isSpeaking, spokenText |-> spokenText,
   mouthShape |-> mouthShape, utteranceQueue |-> utteranceQueue,
   onEndCallback |-> onEndCallback, mouthShapeInterval |-> mouthShapeInterval,
   voices |-> voices, globalLanguage |-> globalLanguage, available |-> available,
   mounted |-> mounted, synthQueue |-> synthQueue, synthStarted |-> synthStarted,
   late |-> late, synthCancelled |-> synthCancelled, reqs |-> reqs]

Apply(st) ==
  /\ isMuted' = st.isMuted
  /\ isSpeaking' = st.isSpeaking
  /\ spokenText' = st.spokenText
  /\ mouthShape' = st.mouthShape
  /\ utteranceQueue' = st.utteranceQueue
  /\ onEndCallback' = st.onEndCallback
  /\ mouthShapeInterval' = st.mouthShapeInterval
  /\ voices' = st.voices
  /\ globalLanguage' = st.globalLanguage
  /\ available' = st.available
  /\ mounted' = st.mounted
  /\ synthQueue' = st.synthQueue
  /\ synthStarted' = st.synthStarted
  /\ late' = st.late
  /\ synthCancelled' = st.synthCancelled
  /\ reqs' = st.reqs
  /\ call' = call

\* A handler starts: no call of the platform has been made by it yet.
Begin(st) == [st EXCEPT !.synthCancelled = FALSE]

\* React state setters: a setter called on an unmounted component has no effect.
setIsSpeaking(st, v) == IF st.mounted THEN [st EXCEPT !.isSpeaking = v] ELSE st

setMouthShape(st, v) == IF st.mounted THEN [st EXCEPT !.mouthShape = v] ELSE st

setSpokenText(st, v) == IF st.mounted THEN [st EXCEPT !.spokenText = v] ELSE st

setVoices(st, v) == IF st.mounted THEN [st EXCEPT !.voices = v] ELSE st

\* if (mouthShapeInterval.current) { clearInterval(...); ... = null }
clearMouthShapeInterval(st) == [st EXCEPT !.mouthShapeInterval = FALSE]

RECURSIVE speak(_, _, _, _, _)

\* A call of a request's onEnd.  The callback is the caller's code and may
\* call back into the hook before it returns: under a recorded chain call
\* the onEnd of the first request calls speak() with the recorded arguments.
invoke(st, r) ==
  LET s1 == [st EXCEPT !.reqs[r].fired = @ + 1]
  IN IF call.kind = "chain" /\ r = 1 /\ Len(s1.reqs) < MaxRequests
     THEN speak(s1, call.textOrSegments, call.onEnd, call.hint, call.lag)
     ELSE s1

-----------------------------------------------------------------------------
(* The platform speech capability (window.speechSynthesis) *)

\* speechSynthesis.speak(utterance): the unit joins the platform's queue.
synthSpeak(st, u) ==
  [st EXCEPT !.synthQueue = Append(@, u)]

\* speechSynthesis.cancel(): every unit leaves the platform's queue at once;
\* the terminal event of each is delivered later, as a task of its own.
synthCancel(st) ==
  [st EXCEPT !.synthQueue = <<>>,
             !.synthStarted = FALSE,
             !.late = @ \cup {[u |-> st.synthQueue[i],
                               started |-> (i = 1 /\ st.synthStarted)] :
                              i \in 1..Len(st.synthQueue)},
             !.synthCancelled = TRUE]

\* speechSynthesis.speaking.  Platforms differ on a unit that was cancelled
\* while its terminal event is still undelivered: one family drops it from
\* the flag at cancel(), the other keeps the flag up until the event has been
\* dispatched (lag).
synthSpeaking(st, lag) ==
  st.synthQueue # <<>> \/ (lag /\ st.late # {})


-----------------------------------------------------------------------------
(* Voice selection, lines 402-417 *)

VoiceGB == [name |-> <<"A", "-", "m", "a", "l", "e">>,
            lang |-> <<"e", "n", "-", "G", "B">>]

VoiceUS == [name |-> <<"B", "-", "F", "e", "m", "a", "l", "e">>,
            lang |-> <<"e", "n", "-", "U", "S">>]

\* The snapshots speechSynthesis.getVoices() returns in the model.
Catalogs == {<<>>, <<VoiceGB, VoiceUS>>}

\* voices.filter(v => v.lang.startsWith(bcp47Lang.split('-')[0]))
voiceCandidates(vs, bcp47Lang) ==
  SelectSeq(vs, LAMBDA v : StartsWith(v.lang, SplitDashFirst(bcp47Lang)))

\* The selection as it would be if the gender hint were tried only among the
\* voices of exactly the target locale.
bestVoiceLocaleFirst(vs, bcp47Lang, langOrGender) ==
  LET cands == voiceCandidates(vs, bcp47Lang)
      exact == FirstOf(SelectSeq(cands, LAMBDA v : v.lang = bcp47Lang))
      genderExact ==
        FirstOf(SelectSeq(cands, LAMBDA v :
                  /\ v.lang = bcp47Lang
                  /\ Includes(ToLowerCase(v.name), GenderWord(langOrGender))))
  IN IF langOrGender \in Genders /\ genderExact # <<>>
     THEN genderExact
     ELSE exact

\* The voice given to an utterance: <<>> when utterance.voice is left unset.
bestVoice(vs, bcp47Lang, langOrGender) ==
  LET cands == voiceCandidates(vs, bcp47Lang)
      exact == FirstOf(SelectSeq(cands, LAMBDA v : v.lang = bcp47Lang))
      isInterview == langOrGender \in Genders
      genderFiltered ==
        SelectSeq(cands, LAMBDA v :
                    Includes(ToLowerCase(v.name), GenderWord(langOrGender)))
      genderExact ==
        FirstOf(SelectSeq(genderFiltered, LAMBDA v : v.lang = bcp47Lang))
  IN IF isInterview /\ genderFiltered # <<>>
     THEN (IF genderExact # <<>> THEN genderExact ELSE <<genderFiltered[1]>>)
     ELSE exact

-----------------------------------------------------------------------------
(* The handlers of the hook *)

\* The requests with something pending: a unit in the engine's queue, a
\* unit at the platform, or the stored callback.
Live(st) ==
  {st.utteranceQueue[i].req : i \in 1..Len(st.utteranceQueue)}
    \cup {st.synthQueue[i].req : i \in 1..Len(st.synthQueue)}
    \cup ({st.onEndCallback} \ {NoCb})

\* History: a call of cancel() cuts the pending requests off.
noteCut(st) ==
  [st EXCEPT !.reqs =
     [r \in DOMAIN st.reqs |->
        IF r \in Live(st) THEN [st.reqs[r] EXCEPT !.cut = TRUE] ELSE st.reqs[r]]]

\* cancel() as it would be if it completed the request it drops: the stored
\* onEnd is called before it is cleared.
cancelInvokingOnEnd(st) ==
  LET s0 == IF st.onEndCallback # NoCb THEN invoke(st, st.onEndCallback) ELSE st
      s1 == [s0 EXCEPT !.utteranceQueue = <<>>, !.onEndCallback = NoCb]
      s2 == clearMouthShapeInterval(s1)
      s3 == setMouthShape(setIsSpeaking(s2, FALSE), NEUTRAL)
  IN IF s3.available THEN synthCancel(s3) ELSE s3

\* cancel() as it would be without lines 358-361: the viseme timer is left
\* running.
cancelKeepingTimer(st) ==
  LET s1 == [st EXCEPT !.utteranceQueue = <<>>, !.onEndCallback = NoCb]
      s3 == setMouthShape(setIsSpeaking(s1, FALSE), NEUTRAL)
  IN IF s3.available THEN synthCancel(s3) ELSE s3

\* cancel() as it would be without line 356: the queue of the request it ends
\* is kept.
cancelKeepingQueue(st) ==
  LET s1 == [st EXCEPT !.onEndCallback = NoCb]
      s2 == clearMouthShapeInterval(s1)
      s3 == setMouthShape(setIsSpeaking(s2, FALSE), NEUTRAL)
  IN IF s3.available THEN synthCancel(s3) ELSE s3

\* cancel() as it would be if it also reset the text on display.
cancelClearingText(st) ==
  LET s1 == [st EXCEPT !.utteranceQueue = <<>>, !.onEndCallback = NoCb]
      s2 == clearMouthShapeInterval(s1)
      s3 == setSpokenText(setMouthShape(setIsSpeaking(s2, FALSE), NEUTRAL), <<>>)
  IN IF s3.available THEN synthCancel(s3) ELSE s3

\* cancel, lines 355-367
cancel(st) ==
  LET s1 == [st EXCEPT !.utteranceQueue = <<>>, !.onEndCallback = NoCb]
      s2 == clearMouthShapeInterval(s1)
      s3 == setMouthShape(setIsSpeaking(s2, FALSE), NEUTRAL)
  IN IF s3.available THEN synthCancel(s3) ELSE s3

\* processQueue as it would be without line 350: the stored callback is
\* left in place after it has been called.
processQueueKeepingCallback(st) ==
  IF Len(st.utteranceQueue) > 0
  THEN synthSpeak([st EXCEPT !.utteranceQueue = Tail(@)], Head(st.utteranceQueue))
  ELSE LET s1 == setMouthShape(setIsSpeaking(st, FALSE), NEUTRAL)
           s2 == clearMouthShapeInterval(s1)
       IN IF s2.onEndCallback # NoCb
          THEN invoke(s2, s2.onEndCallback)
          ELSE s2

\* processQueue, lines 335-353
processQueue(st) ==
  IF Len(st.utteranceQueue) > 0
  THEN synthSpeak([st EXCEPT !.utteranceQueue = Tail(@)], Head(st.utteranceQueue))
  ELSE LET s1 == setMouthShape(setIsSpeaking(st, FALSE), NEUTRAL)
           s2 == clearMouthShapeInterval(s1)
       IN IF s2.onEndCallback # NoCb
          THEN [invoke(s2, s2.onEndCallback) EXCEPT !.onEndCallback = NoCb]
          ELSE s2

\* History of a speak() call: whether it gave an onEnd; how it went
\* ("suppressed" by the guard of line 372, "empty" after normalisation, or
\* "accepted"); how often its onEnd has been called; and whether a call of
\* cancel() has cut it off.
NewRequest(onEnd) ==
  [cb |-> onEnd, how |-> "suppressed", fired |-> 0, cut |-> FALSE]

\* The guard of line 372 as it would be without its isMuted test.
suppressedIgnoringMute(st) == ~st.available

\* Line 372: muted, or no platform speech capability.
suppressed(st) == st.isMuted \/ ~st.available

\* Lines 379-385 as they would be if the third argument were never taken as
\* the language of a string request.
normalizeWithGlobalLanguage(textOrSegments, langOrGender, global) ==
  IF textOrSegments.kind = "string"
  THEN <<[text |-> textOrSegments.text, lang |-> global]>>
  ELSE textOrSegments.segs

\* Lines 379-385: a string becomes one segment.
normalize(textOrSegments, langOrGender, global) ==
  IF textOrSegments.kind = "string"
  THEN <<[text |-> textOrSegments.text,
          lang |-> IF langOrGender \in DOMAIN bcp47LanguageMap
                   THEN langOrGender ELSE global]>>
  ELSE textOrSegments.segs

\* Line 387 as it would be without the trim(): only the empty text is dropped.
retainedKeepingBlank(segments) ==
  SelectSeq(segments, LAMBDA s : s.text # <<>>)

\* Line 387: segments.filter(s => s.text && s.text.trim().length > 0)
retained(segments) ==
  SelectSeq(segments, LAMBDA s : s.text # <<>> /\ Len(Trim(s.text)) > 0)

\* Lines 399-442: one utterance per retained segment, its voice resolved from
\* the voices snapshot of the render that created this speak.
utterancesOf(segments, r, vs, langOrGender) ==
  [i \in 1..Len(segments) |->
     [req |-> r, idx |-> i, text |-> segments[i].text,
      lang |-> bcp47LanguageMap[segments[i].lang],
      voice |-> bestVoice(vs, bcp47LanguageMap[segments[i].lang], langOrGender)]]

\* speak as it would be if the input were normalised before cancel() is
\* called: a request without a speakable segment returns without cancelling.
speakNormalizingFirst(st, textOrSegments, onEnd, langOrGender, lag) ==
  LET r == Len(st.reqs) + 1
      s0 == [st EXCEPT !.reqs = Append(@, NewRequest(onEnd))]
      segments ==
        retained(normalize(textOrSegments, langOrGender, s0.globalLanguage))
  IN IF suppressed(s0)
     THEN (IF onEnd THEN invoke(s0, r) ELSE s0)
     ELSE IF Len(segments) = 0
     THEN LET e == [s0 EXCEPT !.reqs[r].how = "empty"]
          IN IF onEnd THEN invoke(e, r) ELSE e
     ELSE
       LET s1 == cancel(noteCut(s0))
           fullOriginalText ==
             JoinSpace([i \in 1..Len(segments) |-> segments[i].text])
           s2 == setMouthShape(
                   setIsSpeaking(setSpokenText(s1, fullOriginalText), TRUE),
                   "A")
           s3 == [s2 EXCEPT
                    !.onEndCallback = IF onEnd THEN r ELSE NoCb,
                    !.utteranceQueue =
                       @ \o utterancesOf(segments, r, s2.voices, langOrGender),
                    !.reqs[r].how = "accepted"]
       IN IF ~synthSpeaking(s3, lag) THEN processQueue(s3) ELSE s3

\* speak, lines 369-448.  onEnd tells whether the caller gave a callback.
speak(st, textOrSegments, onEnd, langOrGender, lag) ==
  LET r == Len(st.reqs) + 1
      s0 == [st EXCEPT !.reqs = Append(@, NewRequest(onEnd))]
  IN IF suppressed(s0)
     THEN (IF onEnd THEN invoke(s0, r) ELSE s0)
     ELSE
       LET s1 == cancel(noteCut([s0 EXCEPT !.reqs[r].how = "empty"]))
           segments ==
             retained(normalize(textOrSegments, langOrGender, s1.globalLanguage))
       IN IF Len(segments) = 0
          THEN (IF onEnd THEN invoke(s1, r) ELSE s1)
          ELSE
            LET fullOriginalText ==
                  JoinSpace([i \in 1..Len(segments) |-> segments[i].text])
                s2 == setMouthShape(
                        setIsSpeaking(setSpokenText(s1, fullOriginalText), TRUE),
                        "A")
                s3 == [s2 EXCEPT
                         !.onEndCallback = IF onEnd THEN r ELSE NoCb,
                         !.utteranceQueue =
                            @ \o utterancesOf(segments, r, s2.voices, langOrGender),
                         !.reqs[r].how = "accepted"]
            IN IF ~synthSpeaking(s3, lag) THEN processQueue(s3) ELSE s3

\* toggleMute as it would be without the cancel() of lines 453-455.
toggleMuteWithoutCancel(st) == [st EXCEPT !.isMuted = ~st.isMuted]

\* toggleMute as it would be if it called cancel() in both directions.
toggleMuteAlwaysCancelling(st) ==
  [cancel(noteCut(st)) EXCEPT !.isMuted = ~st.isMuted]

\* toggleMute, lines 450-458
toggleMute(st) ==
  LET nextState == ~st.isMuted
      s1 == IF nextState THEN cancel(noteCut(st)) ELSE st
  IN [s1 EXCEPT !.isMuted = nextState]

\* utterance.onstart, lines 424-430
onstart(st) ==
  [clearMouthShapeInterval(st) EXCEPT !.mouthShapeInterval = TRUE]

\* utterance.onend, lines 432-434
onend(st) == processQueue(st)

\* utterance.onerror as it would be if it only logged the error.
onerrorOnlyLogging(st) == st

\* utterance.onerror as it would be if a failing unit aborted its request: the
\* rest of the queue is discarded before the queue is processed.
onerrorDiscarding(st) == processQueue([st EXCEPT !.utteranceQueue = <<>>])

\* utterance.onerror, lines 436-439
onerror(st) == processQueue(st)

\* The interval callback, lines 426-429; i is floor(random() * length) + 1.
tick(st, i) == setMouthShape(st, MOUTH_SHAPES[i])

\* handleVoicesChanged, lines 321-325
handleVoicesChanged(st, availableVoices) == setVoices(st, availableVoices)


-----------------------------------------------------------------------------
(* Inputs *)

\* The texts of string requests: empty, blank and speakable.
Texts == {<<>>, <<" ">>, <<"a">>}

\* The segments of list requests: one that normalisation drops, and two
\* speakable ones of different languages.
SpeechSegments ==
  {[text |-> <<" ">>, lang |-> "en"],
   [text |-> <<"a">>, lang |-> "en"],
   [text |-> <<"b">>, lang |-> "hi"]}

SegmentLists == UNION {[1..n -> SpeechSegments] : n \in 0..MaxSegs}

\* The first argument of speak(): a string or a list of segments.
SpeakInputs ==
  {[kind |-> "string", text |-> t, segs |-> <<>>] : t \in Texts}
    \cup {[kind |-> "segments", text |-> <<>>, segs |-> l] : l \in SegmentLists}

\* The third argument of speak(): a language or a gender hint.
Hints == {"en", "female"}

\* Runs of the hook record no single call.
NoCall ==
  [kind |-> "none", catalog |-> <<>>, target |-> <<>>, hint |-> "en",
   textOrSegments |-> [kind |-> "string", text |-> <<>>, segs |-> <<>>],
   onEnd |-> FALSE, lag |-> FALSE, voice |-> <<>>, done |-> FALSE,
   isSpeaking |-> FALSE, isThinking |-> FALSE, mouthShape |-> NEUTRAL,
   rendered |-> NEUTRAL]

-----------------------------------------------------------------------------
(* Initial state: the hook has been mounted and its first effect has run *)

Init ==
  /\ isMuted = FALSE
  /\ isSpeaking = FALSE
  /\ spokenText = <<>>
  /\ mouthShape = NEUTRAL
  /\ utteranceQueue = <<>>
  /\ onEndCallback = NoCb
  /\ mouthShapeInterval = FALSE
  /\ available \in BOOLEAN
  /\ voices \in (IF available THEN Catalogs ELSE {<<>>})
  /\ globalLanguage \in Languages
  /\ mounted = TRUE
  /\ synthQueue = <<>>
  /\ synthStarted = FALSE
  /\ late = {}
  /\ synthCancelled = FALSE
  /\ reqs = <<>>
  /\ call = NoCall

-----------------------------------------------------------------------------
(* Calls of the UI layer *)

\* The flag can lag only over a cancelled unit.
SpeakingLags ==
  IF synthQueue = <<>> /\ late = {} THEN {FALSE} ELSE BOOLEAN

Speak ==
  /\ mounted
  /\ Len(reqs) < MaxRequests
  /\ \E x \in SpeakInputs, onEnd \in BOOLEAN, h \in Hints, lag \in SpeakingLags :
       Apply(speak(Begin(State), x, onEnd, h, lag))

Cancel ==
  /\ mounted
  /\ Apply(cancel(noteCut(Begin(State))))

ToggleMute ==
  /\ mounted
  /\ Apply(toggleMute(Begin(State)))

\* The unmount effect, lines 460-464.
Unmount ==
  /\ mounted
  /\ Apply([cancel(noteCut(Begin(State))) EXCEPT !.mounted = FALSE])

-----------------------------------------------------------------------------
(* Events of the platform *)

\* The platform is done with the head of its queue.
synthFinish(st) ==
  [st EXCEPT !.synthQueue = Tail(@),
             !.synthStarted = FALSE]

\* The terminal event of a cancelled unit is delivered.
synthDeliver(st, l) ==
  [st EXCEPT !.late = @ \ {l}]

VoicesChanged ==
  /\ mounted
  /\ available
  /\ \E c \in Catalogs :
       Apply(handleVoicesChanged(Begin(State), c))

UtteranceStart ==
  /\ synthQueue # <<>>
  /\ ~synthStarted
  /\ Apply(onstart([Begin(State) EXCEPT !.synthStarted = TRUE]))

UtteranceEnd ==
  /\ synthQueue # <<>>
  /\ synthStarted
  /\ Apply(onend(synthFinish(Begin(State))))

UtteranceError ==
  /\ synthQueue # <<>>
  /\ Apply(onerror(synthFinish(Begin(State))))

\* Events of a unit that speechSynthesis.cancel() removed, delivered after
\* the handler that cancelled it has returned.
LateStart ==
  \E l \in late :
    /\ ~l.started
    /\ Apply(onstart([Begin(State) EXCEPT
                         !.late = (@ \ {l}) \cup {[l EXCEPT !.started = TRUE]}]))

LateEnd ==
  \E l \in late :
    /\ l.started
    /\ Apply(onend(synthDeliver(Begin(State), l)))

LateError ==
  \E l \in late :
    Apply(onerror(synthDeliver(Begin(State), l)))

\* The viseme timer fires.
Tick ==
  /\ mouthShapeInterval
  /\ \E i \in 1..Len(MOUTH_SHAPES) :
       /\ i <= ShapeDraws
       /\ Apply(tick(Begin(State), i))

Next ==
  \/ Speak
  \/ Cancel
  \/ ToggleMute
  \/ Unmount
  \/ VoicesChanged
  \/ UtteranceStart
  \/ UtteranceEnd
  \/ UtteranceError
  \/ LateStart
  \/ LateEnd
  \/ LateError
  \/ Tick

Spec == Init /\ [][Next]_vars

-----------------------------------------------------------------------------
(* Properties *)

\* Nothing is queued and nothing is in flight.
Idle == utteranceQueue = <<>> /\ synthQueue = <<>>

\* The step is a call of speak().
SpeakStep == Len(reqs') = Len(reqs) + 1

\* The step delivers the end or error event of a cancelled unit.
StaleStep == LateEnd \/ LateError

\* C1: FIFO, non-overlapping playback.  At no time are two units in flight
\* at the platform, and a unit in flight precedes, in submission order, every
\* unit of its request that is still queued: the platform is handed s(i+1)
\* only after the end or error of s(i) has been delivered.
C1_FifoNonOverlapping ==
  /\ Len(synthQueue) <= 1
  /\ \A i \in 1..Len(synthQueue), j \in 1..Len(utteranceQueue) :
       synthQueue[i].req = utteranceQueue[j].req
         => synthQueue[i].idx < utteranceQueue[j].idx
  /\ \A j, k \in 1..Len(utteranceQueue) :
       j < k => /\ utteranceQueue[j].req = utteranceQueue[k].req
                /\ utteranceQueue[j].idx < utteranceQueue[k].idx

\* C2, as claimed: exactly-once completion.  Every request that gave an
\* onEnd and has nothing pending any more (it drained, was cancelled, was
\* pre-empted by mute or by a later speak(), or was degraded synchronously)
\* has had its onEnd called exactly once.
C2_ExactlyOnce ==
  \A r \in DOMAIN reqs :
    (reqs[r].cb /\ r \notin Live(State)) => reqs[r].fired = 1

\* C2, as amended: at-most-once completion.  No onEnd is called twice; a
\* request degraded synchronously (suppressed by mute or by the missing
\* capability, or empty after normalisation) has its onEnd called exactly
\* once by the speak() that made it; an end or error event that finds the
\* queue empty calls the stored onEnd once and clears it; and no onEnd is
\* called by the cancel() that cuts its request off (cancel(), mute entry, a
\* later speak(), teardown) or by any step after it.
C2_AtMostOnceNeverAfterCut ==
  [][/\ \A r \in DOMAIN reqs' :
          /\ reqs'[r].fired <= 1
          /\ ~reqs'[r].cb => reqs'[r].fired = 0
          /\ (r \notin DOMAIN reqs /\ reqs'[r].cb /\ reqs'[r].how # "accepted")
               => reqs'[r].fired = 1
          /\ (r \notin DOMAIN reqs /\ reqs'[r].how = "accepted")
               => reqs'[r].fired = 0
          /\ (r \in DOMAIN reqs /\ reqs'[r].cut)
               => reqs'[r].fired = reqs[r].fired
     /\ ((UtteranceEnd \/ UtteranceError \/ StaleStep)
           /\ utteranceQueue = <<>> /\ onEndCallback # NoCb)
          => /\ reqs'[onEndCallback].fired = reqs[onEndCallback].fired + 1
             /\ onEndCallback' = NoCb]_vars

\* A request with an onEnd was cut off before it drained and its onEnd has
\* not been called, and another one was degraded synchronously.
C2_Witness ==
  \E r, q \in DOMAIN reqs :
    /\ reqs[r].cb /\ reqs[r].how = "accepted" /\ reqs[r].cut /\ reqs[r].fired = 0
    /\ reqs[q].cb /\ reqs[q].how # "accepted" /\ reqs[q].fired = 1
    /\ r \notin Live(State)

\* C3: stale event rejection.  The end or error event of a cancelled unit
\* changes neither isSpeaking, mouthShape, the queue nor the stored onEnd,
\* and hands nothing to the platform.
C3_StaleEventRejected ==
  [][StaleStep =>
       /\ UNCHANGED <<isSpeaking, mouthShape, utteranceQueue, onEndCallback>>
       /\ synthQueue' = synthQueue
       /\ \A r \in DOMAIN reqs : reqs'[r].fired = reqs[r].fired]_vars

\* C4: completion only on exhaustion.  When the stored onEnd of a request is
\* called, no unit of that request is queued or in flight, isSpeaking is
\* false and mouthShape is NEUTRAL.
C4_CompletionOnlyOnExhaustion ==
  [][\A r \in DOMAIN reqs :
       reqs'[r].fired > reqs[r].fired
         => /\ \A i \in 1..Len(utteranceQueue') : utteranceQueue'[i].req # r
            /\ \A i \in 1..Len(synthQueue') : synthQueue'[i].req # r
            /\ ~isSpeaking'
            /\ mouthShape' = NEUTRAL]_vars

\* C5: isSpeaking is true if and only if the queue is non-empty or a unit is
\* in flight at the platform.
C5_SpeakingIffPending ==
  isSpeaking <=> (utteranceQueue # <<>> \/ synthQueue # <<>>)

\* C6: mouthShape differs from NEUTRAL only while isSpeaking is true.
C6_ShapeOnlyWhileSpeaking ==
  mouthShape # NEUTRAL => isSpeaking

\* C7: mute pre-empts.  When toggleMute() is called while not muted and a
\* request is pending, then after the call isMuted is true, isSpeaking is
\* false, mouthShape is NEUTRAL, the queue is empty, nothing is in flight,
\* the platform has been told to stop, and no onEnd has been called by the
\* call; nor is the onEnd of a request that was cut off called by any later
\* step.
C7_MutePreempts ==
  [][/\ (ToggleMute /\ ~isMuted /\ Live(State) # {})
          => /\ isMuted'
             /\ ~isSpeaking'
             /\ mouthShape' = NEUTRAL
             /\ utteranceQueue' = <<>>
             /\ synthQueue' = <<>>
             /\ synthCancelled'
             /\ onEndCallback' = NoCb
             /\ \A r \in Live(State) : reqs'[r].cut
             /\ \A r \in DOMAIN reqs : reqs'[r].fired = reqs[r].fired
     /\ \A r \in DOMAIN reqs :
          reqs[r].cut => reqs'[r].fired = reqs[r].fired]_vars

\* Mute was entered over a unit that had started, and the onEnd of its
\* request has not been called.
C7_Witness ==
  /\ isMuted
  /\ synthCancelled
  /\ ~isSpeaking
  /\ \E l \in late :
       /\ l.started
       /\ reqs[l.u.req].cb /\ reqs[l.u.req].cut /\ reqs[l.u.req].fired = 0

\* C8: mute / unavailable-capability suppression.  A speak() made while
\* muted, or without the platform capability, calls its onEnd exactly once
\* (if given), hands nothing to the platform, does not call the platform's
\* cancel(), and leaves isSpeaking, mouthShape, spokenText, the queue and the
\* stored callback unchanged.
C8_MuteSuppresses ==
  [][(SpeakStep /\ (isMuted \/ ~available))
       => /\ reqs'[Len(reqs')].fired = (IF reqs'[Len(reqs')].cb THEN 1 ELSE 0)
          /\ \A r \in DOMAIN reqs : reqs'[r] = reqs[r]
          /\ synthQueue' = synthQueue
          /\ late' = late
          /\ ~synthCancelled'
          /\ UNCHANGED <<isSpeaking, mouthShape, spokenText, utteranceQueue,
                         onEndCallback, mouthShapeInterval, isMuted>>]_vars

\* The last speak() gave an onEnd and was suppressed by mute, with the
\* platform capability present: its onEnd has been called once.
C8_Witness ==
  /\ reqs # <<>>
  /\ reqs[Len(reqs)].cb
  /\ reqs[Len(reqs)].how = "suppressed"
  /\ reqs[Len(reqs)].fired = 1
  /\ ~synthCancelled
  /\ isMuted
  /\ available

\* C9: cancel() postcondition.  After cancel(), and after teardown, the
\* queue is empty, the stored onEnd is cleared and has not been called, no
\* viseme timer is live, isSpeaking is false, mouthShape is NEUTRAL, and the
\* platform (where there is one) has been told to stop and holds no unit.
C9_CancelPostcondition ==
  [][(Cancel \/ Unmount)
       => /\ utteranceQueue' = <<>>
          /\ onEndCallback' = NoCb
          /\ ~mouthShapeInterval'
          /\ ~isSpeaking'
          /\ mouthShape' = NEUTRAL
          /\ synthQueue' = <<>>
          /\ available => synthCancelled'
          /\ \A r \in DOMAIN reqs : reqs'[r].fired = reqs[r].fired]_vars

\* cancel() has cut off a request whose unit had started and whose viseme
\* timer was running.
C9_Witness ==
  /\ ~isMuted
  /\ mounted
  /\ synthCancelled
  /\ ~mouthShapeInterval
  /\ utteranceQueue = <<>>
  /\ \E l \in late :
       /\ l.started
       /\ reqs[l.u.req].cb /\ reqs[l.u.req].cut /\ reqs[l.u.req].fired = 0

\* The fields of the engine that C10 compares.
EngineFields(st) ==
  <<st.isSpeaking, st.mouthShape, st.spokenText, st.isMuted, st.utteranceQueue,
    st.onEndCallback, st.mouthShapeInterval>>

\* C10: cancel idempotence.  In every state cancel(); cancel() leaves the
\* engine as a single cancel() does, and cancel() in the idle state leaves
\* every observable field unchanged.
C10_CancelIdempotent ==
  /\ EngineFields(cancel(cancel(State))) = EngineFields(cancel(State))
  /\ (mounted /\ Idle)
       => LET after == cancel(State)
          IN <<after.isSpeaking, after.mouthShape, after.spokenText, after.isMuted>>
               = <<isSpeaking, mouthShape, spokenText, isMuted>>

\* C11: no cross-request queuing.  When an accepted speak() returns, every
\* unit in the queue and at the platform is a unit of that request; and at
\* no time is a unit of a request that a call of cancel() has cut off (by a
\* later speak(), cancel(), mute or teardown) queued or held by the platform,
\* so no step hands a segment of a pre-empted request to the platform.
C11_NoCrossRequestQueuing ==
  [][/\ (SpeakStep /\ reqs'[Len(reqs')].how = "accepted")
          => /\ \A i \in 1..Len(utteranceQueue') :
                  utteranceQueue'[i].req = Len(reqs')
             /\ \A i \in 1..Len(synthQueue') :
                  synthQueue'[i].req = Len(reqs')
             /\ utteranceQueue' \o synthQueue' # <<>>
     /\ \A i \in 1..Len(utteranceQueue') : ~reqs'[utteranceQueue'[i].req].cut
     /\ \A i \in 1..Len(synthQueue') : ~reqs'[synthQueue'[i].req].cut]_vars

\* A request with a unit handed to the platform was pre-empted by an accepted
\* speak() of two segments, the first of which is now at the platform and
\* the second queued.
C11_Witness ==
  /\ Len(reqs) = 2
  /\ reqs[1].how = "accepted" /\ reqs[1].cut
  /\ reqs[2].how = "accepted"
  /\ \E l \in late : l.u.req = 1
  /\ Len(synthQueue) = 1 /\ synthQueue[1].req = 2 /\ synthQueue[1].idx = 1
  /\ Len(utteranceQueue) = 1 /\ utteranceQueue[1].req = 2

\* C12: a unit's error is treated as its end.  When the platform reports an
\* error for the unit in flight, the handler does what the end handler would
\* do in that state; if a segment is queued, the head of the queue is handed
\* to the platform and the rest of the queue is kept, and no onEnd is called;
\* if none is queued, isSpeaking becomes false, mouthShape NEUTRAL, the
\* stored onEnd is called and cleared, and the onEnd of the unit's request
\* (if it gave one) has then been called once.
C12_ErrorTreatedAsEnd ==
  [][UtteranceError
       => /\ Apply(onend(synthFinish(Begin(State))))
          /\ utteranceQueue # <<>>
               => /\ utteranceQueue' = Tail(utteranceQueue)
                  /\ synthQueue' = Append(Tail(synthQueue), Head(utteranceQueue))
                  /\ \A r \in DOMAIN reqs : reqs'[r].fired = reqs[r].fired
                  /\ UNCHANGED <<isSpeaking, onEndCallback>>
          /\ utteranceQueue = <<>>
               => /\ synthQueue' = Tail(synthQueue)
                  /\ ~isSpeaking'
                  /\ mouthShape' = NEUTRAL
                  /\ onEndCallback' = NoCb
                  /\ onEndCallback # NoCb
                       => reqs'[onEndCallback].fired = reqs[onEndCallback].fired + 1
                  /\ reqs'[synthQueue[1].req].fired
                       = (IF reqs[synthQueue[1].req].cb THEN 1 ELSE 0)]_vars

\* The first unit of a two-segment request failed before it started and the
\* second unit is at the platform: nothing was cancelled and no unit has
\* started, so the advance was made by the error handler.
C12_Witness ==
  /\ Len(reqs) = 1
  /\ reqs[1].how = "accepted" /\ ~reqs[1].cut
  /\ late = {}
  /\ ~mouthShapeInterval
  /\ ~synthStarted
  /\ Len(synthQueue) = 1 /\ synthQueue[1].req = 1 /\ synthQueue[1].idx = 2
  /\ utteranceQueue = <<>>
  /\ isSpeaking

\* The units the engine or the platform holds, or whose events are pending.
Units(st) ==
  {st.utteranceQueue[i] : i \in 1..Len(st.utteranceQueue)}
    \cup {st.synthQueue[i] : i \in 1..Len(st.synthQueue)}
    \cup {l.u : l \in st.late}

\* The text is empty or consists of white space only.
Blank(text) == \A i \in 1..Len(text) : text[i] = " "

\* C13: empty input degradation.  No unit with an empty or white-space-only
\* text is ever queued or handed to the platform; and a speak() that is not
\* suppressed and normalises to no segment calls its onEnd exactly once
\* before it returns (if given), calls no other onEnd, hands nothing to the
\* platform, queues nothing and leaves isSpeaking false.
C13_EmptyInputDegradation ==
  [][/\ \A u \in Units(State') : ~Blank(u.text)
     /\ (SpeakStep /\ reqs'[Len(reqs')].how = "empty")
          => /\ reqs'[Len(reqs')].fired = (IF reqs'[Len(reqs')].cb THEN 1 ELSE 0)
             /\ \A r \in DOMAIN reqs : reqs'[r].fired = reqs[r].fired
             /\ synthQueue' = <<>>
             /\ utteranceQueue' = <<>>
             /\ onEndCallback' = NoCb
             /\ ~isSpeaking'
             /\ spokenText' = spokenText]_vars

\* A speak() with an onEnd, made unmuted with the platform present while a
\* request was speaking, normalised to no segment: its onEnd has been called
\* once.
C13_Witness ==
  /\ Len(reqs) = 2
  /\ reqs[1].how = "accepted" /\ reqs[1].cut
  /\ reqs[2].how = "empty" /\ reqs[2].cb /\ reqs[2].fired = 1
  /\ ~isSpeaking
  /\ synthCancelled

-----------------------------------------------------------------------------
(* One recorded call: the voice selection and the normalisation of speak()  *)
(* applied to arguments that the state keeps, so that the result can be     *)
(* compared with them.                                                      *)

\* A voice without a gender word in its name.
VoiceHI == [name |-> <<"C">>,
            lang |-> <<"h", "i", "-", "I", "N">>]

\* A voice of another language whose tag begins with the letters of "hi".
VoiceHIL == [name |-> <<"D", "-", "f", "e", "m", "a", "l", "e">>,
             lang |-> <<"h", "i", "l", "-", "P", "H">>]

SelectVoices == {VoiceGB, VoiceUS, VoiceHI, VoiceHIL}

\* The snapshots of getVoices() the selection is tried on.
SelectCatalogs == UNION {[1..n -> SelectVoices] : n \in 0..MaxVoices}

\* The target locales the selection is tried on (utterance.lang).
LocaleTags ==
  {<<"e", "n", "-", "U", "S">>, <<"e", "n", "-", "G", "B">>,
   <<"h", "i", "-", "I", "N">>}

\* The third argument of speak(): "en" is its default, no gender hint.
SelectHints == {"en"} \cup Genders

\* The catalogs of the recorded speak() calls.
CallCatalogs == {<<>>, <<VoiceGB, VoiceUS>>, <<VoiceHIL, VoiceHI>>}

SelectCalls ==
  {[NoCall EXCEPT !.kind = "select", !.catalog = c, !.target = t, !.hint = h] :
     c \in SelectCatalogs, t \in LocaleTags, h \in SelectHints}

SpeakCalls ==
  {[NoCall EXCEPT !.kind = "speak", !.textOrSegments = x, !.onEnd = e,
                  !.hint = h] :
     x \in SpeakInputs, e \in BOOLEAN, h \in Languages \cup Genders}

\* AnimatedTutor, src/components/AnimatedTutor.tsx line 17: the props it
\* gives to ThreeAvatar.
AnimatedTutor(isSpeakingProp, isThinkingProp, mouthShapeProp) ==
  [isSpeaking |-> isSpeakingProp \/ isThinkingProp,
   mouthShape |-> IF isThinkingProp THEN "X" ELSE mouthShapeProp]

\* ThreeAvatar as it would be if it gave the mouthShape it gets to
\* AvatarModel whether speaking or not.
ThreeAvatarPassingShape(props) == props.mouthShape

\* ThreeAvatar, line 852: the mouthShape it gives to AvatarModel.
ThreeAvatar(props) ==
  IF props.isSpeaking THEN props.mouthShape ELSE "X"

\* The mouth shapes a parent can pass: the hook's shapes and NEUTRAL.
PassedShapes == {MOUTH_SHAPES[i] : i \in 1..Len(MOUTH_SHAPES)} \cup {NEUTRAL}

RenderCalls ==
  {[NoCall EXCEPT !.kind = "render", !.isSpeaking = s, !.isThinking = t,
                  !.mouthShape = m] :
     s \in BOOLEAN, t \in BOOLEAN, m \in PassedShapes}

\* The hook is mounted, idle and not muted, and the arguments of the one
\* call to come are fixed.
InitCall ==
  /\ isMuted = FALSE
  /\ isSpeaking = FALSE
  /\ spokenText = <<>>
  /\ mouthShape = NEUTRAL
  /\ utteranceQueue = <<>>
  /\ onEndCallback = NoCb
  /\ mouthShapeInterval = FALSE
  /\ available = TRUE
  /\ globalLanguage \in Languages
  /\ mounted = TRUE
  /\ synthQueue = <<>>
  /\ synthStarted = FALSE
  /\ late = {}
  /\ synthCancelled = FALSE
  /\ reqs = <<>>
  /\ call \in SelectCalls \cup SpeakCalls \cup RenderCalls
  /\ voices \in (IF call.kind = "speak" THEN CallCatalogs ELSE {<<>>})

\* Lines 405-417 applied to the recorded catalog, locale and hint.
Select ==
  /\ call.kind = "select"
  /\ ~call.done
  /\ call' = [call EXCEPT !.voice = bestVoice(call.catalog, call.target, call.hint),
                          !.done = TRUE]
  /\ UNCHANGED <<isMuted, isSpeaking, spokenText, mouthShape, utteranceQueue,
                 onEndCallback, mouthShapeInterval, voices, globalLanguage,
                 available, mounted, synthQueue, synthStarted, late,
                 synthCancelled, reqs>>

\* speak() applied to the recorded arguments.
SpeakCall ==
  /\ call.kind = "speak"
  /\ reqs = <<>>
  /\ Apply(speak(Begin(State), call.textOrSegments, call.onEnd, call.hint, FALSE))

\* AnimatedTutor is rendered with the recorded props.
Render ==
  /\ call.kind = "render"
  /\ ~call.done
  /\ call' = [call EXCEPT
                !.rendered = ThreeAvatar(AnimatedTutor(call.isSpeaking,
                                                       call.isThinking,
                                                       call.mouthShape)),
                !.done = TRUE]
  /\ UNCHANGED <<isMuted, isSpeaking, spokenText, mouthShape, utteranceQueue,
                 onEndCallback, mouthShapeInterval, voices, globalLanguage,
                 available, mounted, synthQueue, synthStarted, late,
                 synthCancelled, reqs>>

NextCall ==
  \/ Select
  \/ SpeakCall
  \/ Render

CallSpec == InitCall /\ [][NextCall]_vars

\* The recorded selection has been made.
Selected == call.kind = "select" /\ call.done

\* The voice's locale has the primary subtag of the target locale.
Compatible(v, target) == SplitDashFirst(v.lang) = SplitDashFirst(target)

\* The voice's name contains the hint word, whatever the case of its letters.
MatchesHint(v, hint) == Includes(ToLowerCase(v.name), GenderWord(hint))

\* Exact locale match if there is one, else the first voice, else no voice.
ExactElseFirst(vs, target) ==
  LET exact == SelectSeq(vs, LAMBDA v : v.lang = target)
  IN IF exact # <<>> THEN <<exact[1]>>
     ELSE IF vs # <<>> THEN <<vs[1]>>
     ELSE <<>>

\* C14, as claimed: voice selection precedence.  With a gender hint that no
\* voice of exactly the target locale matches, the hint is dropped and the
\* voice of exactly the target locale is selected, even if (here: when) a
\* voice of the same primary subtag matches the hint.
C14_LocaleBeatsGender ==
  (/\ Selected
   /\ call.hint \in Genders
   /\ \E i \in 1..Len(call.catalog) : call.catalog[i].lang = call.target
   /\ \A i \in 1..Len(call.catalog) :
        call.catalog[i].lang = call.target => ~MatchesHint(call.catalog[i], call.hint)
   /\ \E i \in 1..Len(call.catalog) :
        /\ Compatible(call.catalog[i], call.target)
        /\ MatchesHint(call.catalog[i], call.hint))
    => call.voice =
         FirstOf(SelectSeq(call.catalog, LAMBDA v : v.lang = call.target))

\* C14, as amended: with a gender hint that no voice of exactly the target
\* locale matches, a voice of the same primary subtag that matches the hint
\* wins over the voice of exactly the target locale: the selected voice
\* matches the hint and is not of the target locale.  The hint is dropped,
\* and the voice of exactly the target locale (if any) selected, only when no
\* voice whose locale begins with the target's primary subtag matches it.
\* With the catalog [A: en-GB male, B: en-US female], target en-GB with hint
\* female selects B, and target en-US with no hint selects B.
C14_GenderBeatsLocale ==
  Selected =>
    LET exactGendered ==
          \E i \in 1..Len(call.catalog) :
            /\ call.catalog[i].lang = call.target
            /\ MatchesHint(call.catalog[i], call.hint)
        compatibleGendered ==
          \E i \in 1..Len(call.catalog) :
            /\ Compatible(call.catalog[i], call.target)
            /\ MatchesHint(call.catalog[i], call.hint)
        prefixGendered ==
          \E i \in 1..Len(call.catalog) :
            /\ StartsWith(call.catalog[i].lang, SplitDashFirst(call.target))
            /\ MatchesHint(call.catalog[i], call.hint)
    IN /\ (call.hint \in Genders /\ ~exactGendered /\ compatibleGendered)
            => /\ call.voice # <<>>
               /\ MatchesHint(call.voice[1], call.hint)
               /\ call.voice[1].lang # call.target
       /\ (call.hint \in Genders /\ ~prefixGendered)
            => call.voice =
                 FirstOf(SelectSeq(call.catalog, LAMBDA v : v.lang = call.target))
       /\ (call.catalog = <<VoiceGB, VoiceUS>> /\ call.hint = "female"
             /\ call.target = <<"e", "n", "-", "G", "B">>)
            => call.voice = <<VoiceUS>>
       /\ (call.catalog = <<VoiceGB, VoiceUS>> /\ call.hint = "en"
             /\ call.target = <<"e", "n", "-", "U", "S">>)
            => call.voice = <<VoiceUS>>

\* The selection of the claim's example has been made: catalog [A: en-GB
\* male, B: en-US female], target en-GB, hint female.
C14_Witness ==
  /\ Selected
  /\ call.catalog = <<VoiceGB, VoiceUS>>
  /\ call.hint = "female"
  /\ call.target = <<"e", "n", "-", "G", "B">>
  /\ call.voice = <<VoiceUS>>

\* The voices of the recorded catalog whose locale has the target's primary
\* subtag, in catalog order.
CompatibleVoices ==
  SelectSeq(call.catalog, LAMBDA v : Compatible(v, call.target))

\* C15: ungendered voice selection.  With no gender hint the selected voice
\* is the voice of exactly the target locale if there is one among the
\* voices of the target's primary subtag, otherwise the first of these in
\* catalog order, and no voice only when there is none of them.
C15_UngenderedSelection ==
  (Selected /\ call.hint \notin Genders)
    => call.voice = ExactElseFirst(CompatibleVoices, call.target)

\* C16: gendered voice selection in two passes.  With a gender hint, if some
\* voice of the target's primary subtag has the hint in its name, the
\* selected voice is the one of exactly the target locale among the matching
\* voices, else the first of them; if none matches, the result is the
\* selection made for the same catalog and locale without a hint.
C16_GenderedTwoPass ==
  (Selected /\ call.hint \in Genders)
    => LET matching ==
             SelectSeq(CompatibleVoices, LAMBDA v : MatchesHint(v, call.hint))
       IN IF matching # <<>>
          THEN call.voice = ExactElseFirst(matching, call.target)
          ELSE call.voice = bestVoice(call.catalog, call.target, "en")

\* C17: locale filter.  A voice is selected, by the selection itself or for
\* a unit of a request, only if the primary subtag of its locale is the
\* primary subtag of the target locale.
C17_LocaleFilter ==
  /\ (Selected /\ call.voice # <<>>) => Compatible(call.voice[1], call.target)
  /\ \A u \in Units(State) :
       u.voice # <<>> => Compatible(u.voice[1], u.lang)

\* The segments the recorded call asks for: the list as given, or the string
\* with the third argument as its language when that is an application
\* language and the global language otherwise.
AskedSegments ==
  IF call.textOrSegments.kind = "string"
  THEN <<[text |-> call.textOrSegments.text,
          lang |-> IF call.hint \in Languages THEN call.hint ELSE globalLanguage]>>
  ELSE call.textOrSegments.segs

\* The units of the recorded call in submission order: the one handed to the
\* platform, then the queued ones.
CallUnits == synthQueue \o utteranceQueue

\* C18: hint and locale normalisation.  The units of an accepted call are
\* its non-blank segments in order; every unit of a list request has the
\* locale of its own segment's language tag, the unit of a string request
\* has the locale of the third argument when that is an application language
\* and of the global language otherwise (also when it is a gender hint); and
\* every unit's voice is the selection made for its locale with the call's
\* one hint.
C18_HintAndLocaleNormalisation ==
  (call.kind = "speak" /\ reqs # <<>>)
    => LET asked == SelectSeq(AskedSegments, LAMBDA s : ~Blank(s.text))
       IN /\ (reqs[1].how = "accepted") <=> (asked # <<>>)
          /\ Len(CallUnits) = Len(asked)
          /\ \A i \in 1..Len(CallUnits) :
               /\ CallUnits[i].text = asked[i].text
               /\ CallUnits[i].lang = bcp47LanguageMap[asked[i].lang]
               /\ CallUnits[i].voice
                    = bestVoice(voices, bcp47LanguageMap[asked[i].lang], call.hint)

\* The recorded call was a list of two segments of different languages made
\* with a gender hint, under a catalog with voices.
C18_Witness ==
  /\ call.kind = "speak"
  /\ call.hint \in Genders
  /\ call.textOrSegments.kind = "segments"
  /\ reqs # <<>>
  /\ reqs[1].how = "accepted"
  /\ voices # <<>>
  /\ Len(CallUnits) = 2
  /\ CallUnits[1].lang # CallUnits[2].lang

\* The texts joined by single spaces, built from the last text backwards.
RECURSIVE SpaceJoined(_)
SpaceJoined(texts) ==
  IF texts = <<>> THEN <<>>
  ELSE IF Len(texts) = 1 THEN texts[1]
  ELSE SpaceJoined(SubSeq(texts, 1, Len(texts) - 1)) \o <<" ">> \o texts[Len(texts)]

\* The step is a call of speak() that is accepted.
AcceptedSpeakStep == SpeakStep /\ reqs'[Len(reqs')].how = "accepted"

\* C19: spokenText frame.  An accepted speak() sets spokenText to the texts
\* of its retained segments (the units it has built, in submission order)
\* joined by single spaces; no other step changes spokenText: no start, end
\* or error event, viseme tick, cancel(), toggleMute(), teardown, change of
\* the voices, nor a speak() that is suppressed or empty.
C19_SpokenTextFrame ==
  [][/\ AcceptedSpeakStep
          => LET units == synthQueue' \o utteranceQueue'
             IN spokenText' = SpaceJoined([i \in 1..Len(units) |-> units[i].text])
     /\ ~AcceptedSpeakStep => spokenText' = spokenText]_vars

\* A request of two segments was accepted and then cut off by cancel() or by
\* mute: the text of both segments is still on display.
C19_Witness ==
  /\ Len(reqs) = 1
  /\ reqs[1].how = "accepted" /\ reqs[1].cut
  /\ synthCancelled
  /\ ~isSpeaking
  /\ spokenText = <<"a", " ", "b">>

\* C20: unmute frame.  toggleMute() called while muted sets isMuted to false
\* and changes nothing else: isSpeaking, mouthShape, spokenText, the queue,
\* the stored callback and the viseme timer are as before, no onEnd is
\* called, and the platform is neither told to stop nor handed anything.
\* In every state, toggleMute() applied twice gives isMuted its first value.
C20_UnmuteFrame ==
  [][/\ (ToggleMute /\ isMuted)
          => /\ ~isMuted'
             /\ UNCHANGED <<isSpeaking, mouthShape, spokenText, utteranceQueue,
                            onEndCallback, mouthShapeInterval, voices,
                            synthQueue, synthStarted, late, reqs>>
             /\ ~synthCancelled'
     /\ toggleMute(toggleMute(State)).isMuted = isMuted]_vars

\* Mute was left again while the viseme timer of a cancelled unit, set by
\* its late start event, was running and had drawn a shape: the unmuting
\* call has changed neither, and a speak() had been suppressed meanwhile.
C20_Witness ==
  /\ ~isMuted
  /\ ~synthCancelled
  /\ mounted
  /\ \E r \in DOMAIN reqs : reqs[r].how = "suppressed"
  /\ available
  /\ mouthShapeInterval
  /\ mouthShape # NEUTRAL
  /\ reqs[1].cut

\* C21: the drain starts on acceptance.  When an accepted speak() returns,
\* its first retained segment is at the platform and the queue holds exactly
\* its remaining segments in submission order, whatever the platform's
\* speaking flag reported during the call.
C21_DrainStartsOnAcceptance ==
  [][AcceptedSpeakStep
       => /\ Len(synthQueue') = 1
          /\ synthQueue'[1].req = Len(reqs')
          /\ synthQueue'[1].idx = 1
          /\ \A i \in 1..Len(utteranceQueue') :
               /\ utteranceQueue'[i].req = Len(reqs')
               /\ utteranceQueue'[i].idx = i + 1]_vars

-----------------------------------------------------------------------------
(* Progress *)

\* The platform delivers a terminal event for every unit handed to it: the
\* unit in flight ends or fails, and the terminal event of a unit removed by
\* speechSynthesis.cancel() is dispatched.
PlatformDelivers ==
  /\ WF_vars(UtteranceEnd \/ UtteranceError)
  /\ WF_vars(LateEnd \/ LateError)

\* The hook on a platform with the speech capability, before any voice has
\* been reported.
InitLive ==
  /\ Init
  /\ available
  /\ voices = <<>>
  /\ globalLanguage = "en"

\* The calls of the UI layer on the mounted hook and the events of the
\* platform's units.
NextLive ==
  \/ Speak
  \/ Cancel
  \/ ToggleMute
  \/ UtteranceStart
  \/ UtteranceEnd
  \/ UtteranceError
  \/ LateStart
  \/ LateEnd
  \/ LateError
  \/ Tick

LiveSpec == InitLive /\ [][NextLive]_vars /\ PlatformDelivers

\* A call of the UI layer: speak(), cancel() or toggleMute().
UICall == Speak \/ Cancel \/ ToggleMute

\* Nothing is queued or in flight, isSpeaking is false, mouthShape is
\* NEUTRAL, and every accepted request that was not cut off and gave an
\* onEnd has had it called.
Completed ==
  /\ Idle
  /\ ~isSpeaking
  /\ mouthShape = NEUTRAL
  /\ \A r \in DOMAIN reqs :
       (reqs[r].how = "accepted" /\ reqs[r].cb /\ ~reqs[r].cut)
         => reqs[r].fired = 1

-----------------------------------------------------------------------------
(* Pre-emption *)

\* C23: pre-emption callback policy.  An accepted speak() that pre-empts a
\* request with something pending cuts it off as cancel() does: it calls no
\* onEnd of an earlier request, the pre-empted request's onEnd is not the
\* stored callback any more, and no later step (a late event of its units,
\* the drain of the new request) calls the onEnd of a request that was cut
\* off.
C23_PreemptionCallbackPolicy ==
  [][/\ (AcceptedSpeakStep /\ Live(State) # {})
          => /\ \A r \in Live(State) : reqs'[r].cut
             /\ \A r \in DOMAIN reqs : reqs'[r].fired = reqs[r].fired
             /\ onEndCallback' \notin DOMAIN reqs
     /\ \A r \in DOMAIN reqs :
          reqs[r].cut => reqs'[r].fired = reqs[r].fired]_vars

\* A request with an onEnd was pre-empted by an accepted speak() with an
\* onEnd; the late events of its units have been delivered and the second
\* request has drained: the second onEnd has been called, the first has not.
C23_Witness ==
  /\ Len(reqs) = 2
  /\ reqs[1].how = "accepted" /\ reqs[1].cb /\ reqs[1].cut /\ reqs[1].fired = 0
  /\ reqs[2].how = "accepted" /\ reqs[2].cb /\ ~reqs[2].cut /\ reqs[2].fired = 1
  /\ late = {}
  /\ Idle
  /\ onEndCallback = NoCb

-----------------------------------------------------------------------------
(* Per-unit resolution and the viseme driver *)

\* The units at the platform after a step that were not there before it.
HandedOver ==
  {synthQueue'[i] : i \in 1..Len(synthQueue')}
    \ {synthQueue[i] : i \in 1..Len(synthQueue)}

\* C24: voice resolution per pop.  The voice of a unit handed to the platform
\* is the selection made, for the unit's locale and one of the hints a caller
\* can give, against the catalog snapshot that is current when the unit is
\* popped from the queue.
C24_VoiceResolvedPerPop ==
  [][\A u \in HandedOver :
       \E h \in Hints : u.voice = bestVoice(voices, u.lang, h)]_vars

\* C25: the viseme driver is scoped to one unit.  The end or error event of
\* the unit in flight, and cancel(), leave no viseme timer live; and a tick
\* of the timer falls only between the start event and the terminal event of
\* the unit in flight.
C25_VisemeDriverScopedToUnit ==
  [][/\ (UtteranceEnd \/ UtteranceError \/ Cancel) => ~mouthShapeInterval'
     /\ Tick => (synthQueue # <<>> /\ synthStarted)]_vars

\* C28: an empty request still pre-empts.  A speak() that is not suppressed
\* and normalises to no segment, made while a request has something pending,
\* cuts that request off as cancel() does: the queue is emptied, nothing is
\* left at the platform, which has been told to stop, the viseme timer is
\* cleared, isSpeaking is false, mouthShape is NEUTRAL, no onEnd of the
\* pre-empted request is called by the call, and the call's own onEnd (if
\* given) has been called once when it returns.
C28_EmptyRequestPreempts ==
  [][(SpeakStep /\ reqs'[Len(reqs')].how = "empty" /\ Live(State) # {})
       => /\ utteranceQueue' = <<>>
          /\ synthQueue' = <<>>
          /\ synthCancelled'
          /\ ~mouthShapeInterval'
          /\ ~isSpeaking'
          /\ mouthShape' = NEUTRAL
          /\ onEndCallback' = NoCb
          /\ \A r \in Live(State) : reqs'[r].cut
          /\ \A r \in DOMAIN reqs : reqs'[r].fired = reqs[r].fired
          /\ reqs'[Len(reqs')].fired = (IF reqs'[Len(reqs')].cb THEN 1 ELSE 0)]_vars

\* A request with an onEnd, whose unit had started, was pre-empted by a
\* speak() with an onEnd that normalised to no segment: the unit was
\* cancelled, the first onEnd has not been called and the second has.
C28_Witness ==
  /\ Len(reqs) = 2
  /\ reqs[1].how = "accepted" /\ reqs[1].cb /\ reqs[1].cut /\ reqs[1].fired = 0
  /\ reqs[2].how = "empty" /\ reqs[2].cb /\ reqs[2].fired = 1
  /\ \E l \in late : l.u.req = 1 /\ l.started
  /\ synthCancelled
  /\ ~isSpeaking
  /\ mouthShape = NEUTRAL

-----------------------------------------------------------------------------
(* Gender words *)

\* The voice is labelled male and not female.
LabelledMale(v) == MatchesHint(v, "male") /\ ~MatchesHint(v, "female")

\* C29: gender separation.  With the hint male, a voice with female in its
\* name is selected only if no voice of the target's primary subtag is
\* labelled male, and then not as a gender match: it is the voice the
\* selection without a hint gives.
C29_GenderSeparation ==
  (/\ Selected
   /\ call.hint = "male"
   /\ call.voice # <<>>
   /\ MatchesHint(call.voice[1], "female"))
    => /\ \A i \in 1..Len(call.catalog) :
            Compatible(call.catalog[i], call.target)
              => ~LabelledMale(call.catalog[i])
       /\ call.voice = bestVoice(call.catalog, call.target, "en")

-----------------------------------------------------------------------------
(* The avatar *)

\* C30: the rendered mouth shape.  For every isSpeaking, isThinking and
\* mouthShape passed to AnimatedTutor, the shape given to the avatar model
\* is mouthShape when isSpeaking is true and isThinking is false, and NEUTRAL
\* in every other case.
C30_RenderedMouthShape ==
  (call.kind = "render" /\ call.done)
    => call.rendered = (IF call.isSpeaking /\ ~call.isThinking
                        THEN call.mouthShape
                        ELSE NEUTRAL)

\* AnimatedTutor has been rendered idle with a shape other than NEUTRAL
\* passed to it.
C30_Witness ==
  /\ call.kind = "render"
  /\ call.done
  /\ ~call.isSpeaking
  /\ ~call.isThinking
  /\ call.mouthShape = "A"
  /\ call.rendered = NEUTRAL

-----------------------------------------------------------------------------
(* Re-entrant callbacks: the onEnd of the first request calls speak() *)

\* What the chaining onEnd asks to be spoken: a string, and a list of two
\* segments.
ChainInputs ==
  {[kind |-> "string", text |-> <<"a">>, segs |-> <<>>],
   [kind |-> "segments", text |-> <<>>,
    segs |-> <<[text |-> <<"a">>, lang |-> "en"],
               [text |-> <<"b">>, lang |-> "hi"]>>]}

\* The speak() call the first request's onEnd makes, and what the
\* platform's speaking flag reports during it.
ChainCalls ==
  {[NoCall EXCEPT !.kind = "chain", !.textOrSegments = x, !.onEnd = e,
                  !.lag = l] :
     x \in ChainInputs, e \in BOOLEAN, l \in BOOLEAN}

InitChain ==
  /\ isMuted = FALSE
  /\ isSpeaking = FALSE
  /\ spokenText = <<>>
  /\ mouthShape = NEUTRAL
  /\ utteranceQueue = <<>>
  /\ onEndCallback = NoCb
  /\ mouthShapeInterval = FALSE
  /\ available = TRUE
  /\ voices = <<>>
  /\ globalLanguage = "en"
  /\ mounted = TRUE
  /\ synthQueue = <<>>
  /\ synthStarted = FALSE
  /\ late = {}
  /\ synthCancelled = FALSE
  /\ reqs = <<>>
  /\ call \in ChainCalls

\* The platform delivers a terminal event once more, for a unit that has had
\* one already.
RepeatedEnd ==
  /\ \E r \in DOMAIN reqs : reqs[r].how = "accepted"
  /\ Apply(onend(Begin(State)))

NextChain ==
  \/ Speak
  \/ Cancel
  \/ ToggleMute
  \/ UtteranceStart
  \/ UtteranceEnd
  \/ UtteranceError
  \/ LateStart
  \/ LateEnd
  \/ LateError
  \/ RepeatedEnd

ChainSpec == InitChain /\ [][NextChain]_vars

\* C26: re-entrant chaining.  When the onEnd of the first request, called at
\* the drain of its queue, calls speak() with a speakable segment and an
\* onEnd of its own, then after the drain handler has returned that onEnd is
\* the stored callback.
C26_ReentrantChaining ==
  [][(/\ Len(reqs) = 1
      /\ reqs[1].how = "accepted"
      /\ reqs[1].fired = 0
      /\ Len(reqs') = 2
      /\ reqs'[1].fired = 1
      /\ reqs'[2].how = "accepted"
      /\ reqs'[2].cb)
       => onEndCallback' = 2]_vars

\* C27: at-most-once completion.  Under every interleaving of speak(),
\* cancel(), toggleMute(), a speak() made from within an onEnd, and the
\* platform's events, late and repeated ones included, no request's onEnd
\* is called more than once.
C27_AtMostOnce ==
  \A r \in DOMAIN reqs : reqs[r].fired <= 1

\* The first request has drained and its onEnd, called once, has made the
\* second request from within the drain; that one has been accepted and
\* every unit has had its terminal event.
C27_Witness ==
  /\ call.kind = "chain"
  /\ Len(reqs) = 2
  /\ reqs[1].how = "accepted" /\ reqs[1].cb /\ reqs[1].fired = 1
  /\ reqs[2].how = "accepted"
  /\ spokenText = <<"a", " ", "b">>
  /\ Idle
  /\ late = {}

=============================================================================
